---------------------------- MODULE Spec2Model ----------------------------
(***************************************************************************)
(* Model of grinder's host layer (grinder/host.py) and of the sharing test *)
(* (test/sharing_test.py).                                                 *)
(*                                                                         *)
(* Part 1: the scoped hook protocol, CobaltHook.__init__/__enter__/        *)
(*         __exit__ with Host.drop_hook and Host.check_supports_hooks,     *)
(*         run by two test runs against one host.  Every remote command is *)
(*         one blocking round trip, so one action issues one command.      *)
(***************************************************************************)
EXTENDS Integers, Sequences, FiniteSets, TLC

(***************************************************************************)
(* Bounds of the model.                                                    *)
(***************************************************************************)
NumRuns == 2
MaxUuid == 3

Runs == 1..NumRuns
UUIDs == 1..MaxUuid
HookBases == {"hook"}

NoName == <<>>
NoFile == [exec |-> FALSE, body |-> <<>>]
NoExc == "None"

(***************************************************************************)
(* Python float arithmetic (IEEE 754 binary64, round to nearest, ties to   *)
(* even), as far as test_sharing uses it: float(int), float("d.dd"), the   *)
(* quotient of two integers, the product of a float and an integer, the    *)
(* comparison > and the truncation int().  A positive float is             *)
(* [e |-> exponent, m |-> the MantBits bits of the significand, most       *)
(* significant (always 1) first], of value 1.m[2]m[3]... * 2^e; zero has   *)
(* the empty significand.                                                  *)
(***************************************************************************)
MantBits == 53

FZero == [e |-> 0, m |-> <<>>]

RECURSIVE Pow2(_)
Pow2(k) == IF k = 0 THEN 1 ELSE 2 * Pow2(k - 1)

\* the least k >= 0 with a * 2^k >= b
RECURSIVE ShiftToReach(_, _)
ShiftToReach(a, b) == IF a >= b THEN 0 ELSE 1 + ShiftToReach(2 * a, b)

\* the greatest k >= 0 with a * 2^k <= b (for a <= b)
RECURSIVE ShiftToStay(_, _)
ShiftToStay(a, b) == IF 2 * a > b THEN 0 ELSE 1 + ShiftToStay(2 * a, b)

\* the number of binary digits of n >= 1
RECURSIVE BitLength(_)
BitLength(n) == IF n <= 1 THEN 1 ELSE 1 + BitLength(n \div 2)

\* the w low binary digits of n, most significant first
BitsOfWidth(n, w) == [i \in 1..w |-> (n \div Pow2(w - i)) % 2]

\* binary digits of n >= 1, most significant first
BitsOfNat(n) == BitsOfWidth(n, BitLength(n))

\* value of a bit sequence, taken ChunkBits bits at a time
ChunkBits == 8

RECURSIVE SmallNatOfBits(_)
SmallNatOfBits(b) ==
    IF b = <<>> THEN 0
    ELSE 2 * SmallNatOfBits(SubSeq(b, 1, Len(b) - 1)) + b[Len(b)]

RECURSIVE NatOfBits(_)
NatOfBits(b) ==
    IF Len(b) <= ChunkBits THEN SmallNatOfBits(b)
    ELSE Pow2(ChunkBits) * NatOfBits(SubSeq(b, 1, Len(b) - ChunkBits))
         + SmallNatOfBits(SubSeq(b, Len(b) - ChunkBits + 1, Len(b)))

\* long division: the next count quotient bits of rem / d (rem < d), and
\* the remainder, ChunkBits bits at a time
RECURSIVE DivBits(_, _, _)
DivBits(rem, d, count) ==
    IF count = 0 THEN [bits |-> <<>>, rem |-> rem]
    ELSE LET w    == IF count < ChunkBits THEN count ELSE ChunkBits
             v    == rem * Pow2(w)
             rest == DivBits(v % d, d, count - w)
         IN  [bits |-> BitsOfWidth(v \div d, w) \o rest.bits, rem |-> rest.rem]

\* b + 1 on a bit sequence; carry is set when b was all ones
IncBits(b) ==
    IF \A i \in 1..Len(b) : b[i] = 1
    THEN [bits |-> [i \in 1..Len(b) |-> 0], carry |-> 1]
    ELSE LET p == CHOOSE i \in 1..Len(b) :
                     b[i] = 0 /\ \A j \in (i + 1)..Len(b) : b[j] = 1
         IN  [bits |-> [i \in 1..Len(b) |->
                          IF i < p THEN b[i] ELSE IF i = p THEN 1 ELSE 0],
              carry |-> 0]

\* the float of exponent e and significand bits, rounded up by one unit in
\* the last place when roundUp
FRound(e, bits, roundUp) ==
    IF ~roundUp THEN [e |-> e, m |-> bits]
    ELSE LET up == IncBits(bits)
         IN  IF up.carry = 1
             THEN [e |-> e + 1, m |-> <<1>> \o SubSeq(up.bits, 1, Len(bits) - 1)]
             ELSE [e |-> e, m |-> up.bits]

\* float(n) / float(d) for integers n >= 0, d > 0 (both exactly
\* representable): the correctly rounded quotient.  The same operator gives
\* float("0.dd") as FDiv(dd, 100).
FDiv(n, d) ==
    IF n = 0 THEN FZero
    ELSE LET up   == IF n >= d THEN ShiftToStay(d, n) ELSE 0
             down == IF n >= d THEN 0 ELSE ShiftToReach(n, d)
             num  == n * Pow2(down)
             den  == d * Pow2(up)
             q    == DivBits(num - den, den, MantBits - 1)
             bits == <<1>> \o q.bits
             roundUp == \/ 2 * q.rem > den
                        \/ (2 * q.rem = den /\ bits[MantBits] = 1)
         IN  FRound(up - down, bits, roundUp)

\* bits * k + carry for an integer k >= 1, as a bit sequence without
\* leading zeros, ChunkBits bits at a time from the least significant end
RECURSIVE MulBitsCarry(_, _, _)
MulBitsCarry(b, k, carry) ==
    IF Len(b) <= ChunkBits
    THEN BitsOfNat(k * SmallNatOfBits(b) + carry)
    ELSE LET v == k * SmallNatOfBits(SubSeq(b, Len(b) - ChunkBits + 1, Len(b)))
                  + carry
         IN  MulBitsCarry(SubSeq(b, 1, Len(b) - ChunkBits), k,
                          v \div Pow2(ChunkBits))
             \o BitsOfWidth(v % Pow2(ChunkBits), ChunkBits)

\* x * float(k) for a float x and an integer k >= 1: the correctly rounded
\* product
FMulInt(x, k) ==
    IF x.m = <<>> THEN FZero
    ELSE LET prod    == MulBitsCarry(x.m, k, 0)
             extra   == Len(prod) - MantBits
             bits    == SubSeq(prod, 1, MantBits)
             dropped == SubSeq(prod, MantBits + 1, Len(prod))
             guard   == extra >= 1 /\ dropped[1] = 1
             sticky  == \E i \in 2..extra : dropped[i] = 1
             roundUp == guard /\ (sticky \/ bits[MantBits] = 1)
         IN  FRound(x.e + extra, bits, roundUp)

\* lexicographic > on bit sequences of one length
BitsGt(a, b) ==
    \E i \in 1..Len(a) :
        a[i] > b[i] /\ \A j \in 1..(i - 1) : a[j] = b[j]

\* x > y on non-negative floats
FGt(x, y) ==
    IF x.m = <<>> THEN FALSE
    ELSE IF y.m = <<>> THEN TRUE
    ELSE IF x.e # y.e THEN x.e > y.e
    ELSE BitsGt(x.m, y.m)

\* int(x): truncation towards zero
FToInt(x) ==
    IF x.m = <<>> \/ x.e < 0 THEN 0
    ELSE NatOfBits(SubSeq(x.m, 1, x.e + 1))

(***************************************************************************)
(* State of the hook protocol.                                             *)
(*   hooks_dir_exists  whether COBALT_HOOKS_DIR exists on the host         *)
(*   hooks_d           the files of COBALT_HOOKS_DIR: name -> [exec, body] *)
(*   used_uuids        the values uuid.uuid4() has returned so far         *)
(*   hpc               position of each run in its with-statement          *)
(*   hookname, cleanup, leave_on_failure   fields of each run's CobaltHook *)
(*   deployed          drop_hook returned True and the scope was entered   *)
(*   body_exc          the exception type the scope body raised, or None   *)
(*   observed          the exception the caller of the with-statement sees *)
(*   issued            the commands each run handed to Host.check_output,  *)
(*                     each with its outcome                               *)
(***************************************************************************)
VARIABLES hooks_dir_exists, hooks_d, used_uuids, hpc, hookname, cleanup,
          leave_on_failure, deployed, body_exc, observed, issued

hookVars == <<hooks_dir_exists, hooks_d, used_uuids, hpc, hookname, cleanup,
              leave_on_failure, deployed, body_exc, observed, issued>>

(***************************************************************************)
(* State of TestSharing.test_sharing (Part 2).                             *)
(*   tpc                position in test_sharing                           *)
(*   test_sharing_disable, sharing_clones, cow_slack, share_ratio          *)
(*                      the config knobs config.test_sharing_*; the ratio  *)
(*                      is held in hundredths (30 is the string "0.30")    *)
(*   vm                 the clones the provisioning API has launched, in   *)
(*                      launch order: host, generation, vmsctl state       *)
(*   hostdict, clonelist, clone, host, generation, sharingclones           *)
(*                      the locals of test_sharing; a clone is its index   *)
(*                      in vm, a host is its id                            *)
(*   idx                position of the running for-loop                   *)
(*   resident, allocated, unshare_before_force_cow, target                 *)
(*                      the locals read from the stats and from vmsctl     *)
(*   failed_at          the step whose assert failed, "" if none           *)
(***************************************************************************)
VARIABLES tpc, test_sharing_disable, sharing_clones, cow_slack, share_ratio,
          vm, hostdict, clonelist, clone, host, generation, sharingclones,
          idx, resident, allocated, unshare_before_force_cow, target,
          failed_at

testVars == <<tpc, test_sharing_disable, sharing_clones, cow_slack,
              share_ratio, vm, hostdict, clonelist, clone, host, generation,
              sharingclones, idx, resident, allocated,
              unshare_before_force_cow, target, failed_at>>

(***************************************************************************)
(* What the run was given, kept beside the locals of test_sharing:         *)
(*   supplied           the three knobs as configured, before lines 18-41  *)
(*   maxmem             what vmsctl.get_max_memory() returned (line 126)   *)
(*   unshare_after      sh_cow + sh_un of the last stats sample (line 148) *)
(***************************************************************************)
VARIABLES supplied, maxmem, unshare_after

inputVars == <<supplied, maxmem, unshare_after>>

(***************************************************************************)
(* The text the host's commands print and what the parsing methods of      *)
(* Host make of it.  A text is a sequence of characters.                   *)
(*   ppc           which method is being called, or "done"                 *)
(*   stats_out     stdout of 'cat /sys/fs/vmsfs/...'                       *)
(*   ip_out        stdout of 'ip addr | grep "inet "'                      *)
(*   captures      stdout of successive 'iptables -n -L chain || true'     *)
(*                 of one chain                                            *)
(*   iptables_out  stdout of 'iptables -n -L chain || true' by chain name  *)
(*   query         the arguments of the call                               *)
(*   ret           what the calls made so far returned or raised           *)
(***************************************************************************)
VARIABLES ppc, stats_out, ip_out, captures, iptables_out, query, ret

parseVars == <<ppc, stats_out, ip_out, captures, iptables_out, query, ret>>

vars == <<hookVars, testVars, inputVars, parseVars>>

\* no parsing method has been called
ParseIdle ==
    /\ ppc = "idle"
    /\ stats_out = <<>> /\ ip_out = <<>>
    /\ captures = <<>> /\ iptables_out = <<>>
    /\ query = <<>> /\ ret = <<>>

(***************************************************************************)
(* RootShell.check_output: the command completes with exit status 0        *)
(* ("ok"), completes with a non-zero status ("fail"), or cannot be         *)
(* executed at all ("raise", a transport failure, which raises whatever    *)
(* the mode).  With exc=True a non-zero status raises as well.             *)
(***************************************************************************)
Outcomes == {"ok", "fail", "raise"}

Raises(outcome, exc) == outcome = "raise" \/ (exc /\ outcome = "fail")

\* os.path.join(COBALT_HOOKS_DIR, hookname): one file per hook name.
\* CobaltHook.__init__: hookname + str(uuid.uuid4()), a suffix of fixed
\* length, so two names are equal iff base and uuid are both equal.
HookNameNoSuffix(base, uuid) == <<base>>
HookName(base, uuid) == <<base, uuid>>

\* CobaltHook.__exit__, line 40: the cleanup condition.
ShouldCleanupOnlyNormal(type, leave) == type = NoExc
ShouldCleanupAlways(type, leave) == TRUE
ShouldCleanup(type, leave) == type = NoExc \/ ~leave

NoSupplied == [clones |-> 0, slack |-> 0, ratio |-> 0]

\* test_sharing has not been called
TestIdle ==
    /\ tpc = "idle"
    /\ test_sharing_disable = FALSE
    /\ sharing_clones = 0 /\ cow_slack = 0 /\ share_ratio = 0
    /\ vm = <<>> /\ hostdict = <<>> /\ clonelist = <<>>
    /\ clone = 0 /\ host = 0 /\ generation = 0 /\ sharingclones = <<>>
    /\ idx = 0 /\ resident = 0 /\ allocated = 0
    /\ unshare_before_force_cow = 0 /\ target = 0
    /\ failed_at = ""
    /\ supplied = NoSupplied /\ maxmem = 0 /\ unshare_after = 0

HookInit ==
    /\ TestIdle
    /\ ParseIdle
    /\ hooks_dir_exists \in BOOLEAN
    /\ hooks_d = [n \in {} |-> NoFile]
    /\ used_uuids = {}
    /\ hpc = [r \in Runs |-> "new"]
    /\ hookname = [r \in Runs |-> NoName]
    /\ cleanup \in [Runs -> BOOLEAN]
    /\ leave_on_failure \in [Runs -> BOOLEAN]
    /\ deployed = [r \in Runs |-> FALSE]
    /\ body_exc = [r \in Runs |-> NoExc]
    /\ observed = [r \in Runs |-> NoExc]
    /\ issued = [r \in Runs |-> <<>>]

\* uuid.uuid4(): a value that no earlier call has returned.
Uuid4 == UUIDs \ used_uuids

\* The file operations of the three deployment commands and of 'rm -f'.
Touch(fs, name) ==
    IF name \in DOMAIN fs THEN fs
    ELSE [n \in DOMAIN fs \cup {name} |-> IF n = name THEN NoFile ELSE fs[n]]

Chmod(fs, name) == [fs EXCEPT ![name].exec = TRUE]

CatAppend(fs, name, script) ==
    [n \in DOMAIN fs \cup {name} |->
        IF n = name
        THEN [exec |-> IF n \in DOMAIN fs THEN fs[n].exec ELSE FALSE,
              body |-> Append(IF n \in DOMAIN fs THEN fs[n].body ELSE <<>>,
                              script)]
        ELSE fs[n]]

RmForce(fs, name) == [n \in DOMAIN fs \ {name} |-> fs[n]]

Issue(r, command, o) ==
    issued' = [issued EXCEPT ![r] = Append(@, [cmd |-> command, out |-> o])]

\* The with-statement ends: the caller observes exception e (None: none).
Leave(r, e) ==
    /\ observed' = [observed EXCEPT ![r] = e]
    /\ hpc' = [hpc EXCEPT ![r] = "done"]

\* Host.with_hook -> CobaltHook.__init__
with_hook(r) ==
    /\ hpc[r] = "new"
    /\ \E base \in HookBases, uuid \in Uuid4 :
          /\ hookname' = [hookname EXCEPT ![r] = HookName(base, uuid)]
          /\ used_uuids' = used_uuids \cup {uuid}
    /\ hpc' = [hpc EXCEPT ![r] = "enter"]
    /\ UNCHANGED <<hooks_dir_exists, hooks_d, cleanup, leave_on_failure,
                   deployed, body_exc, observed, issued>>
    /\ UNCHANGED testVars
    /\ UNCHANGED inputVars
    /\ UNCHANGED parseVars

\* CobaltHook.__enter__ -> Host.drop_hook -> Host.check_supports_hooks:
\* 'stat' with exc=True; any exception makes the probe return False, then
\* drop_hook returns False and the assert of __enter__ fails.
check_supports_hooks(r) ==
    /\ hpc[r] = "enter"
    /\ \E o \in IF hooks_dir_exists THEN {"ok", "raise"} ELSE {"fail", "raise"} :
          /\ Issue(r, "stat", o)
          /\ IF Raises(o, TRUE)
             THEN Leave(r, "AssertionError")
             ELSE /\ hpc' = [hpc EXCEPT ![r] = "touch"]
                  /\ UNCHANGED observed
    /\ UNCHANGED <<hooks_dir_exists, hooks_d, used_uuids, hookname, cleanup,
                   leave_on_failure, deployed, body_exc>>
    /\ UNCHANGED testVars
    /\ UNCHANGED inputVars
    /\ UNCHANGED parseVars

\* Host.drop_hook, the except clause: log.exception("...%s...%s..." %
\* hookname, self.id) formats two %s with one argument, which raises
\* TypeError out of the handler before 'return False' is reached.
DropHookHandler(r) == Leave(r, "TypeError")

\* Host.drop_hook, lines 188-193: every deployment command runs with
\* exc=True inside the try, so a non-zero status enters the handler too.
DropStepFailsNoExc(o) == Raises(o, FALSE)
DropStepFails(o) == Raises(o, TRUE)

\* Host.drop_hook: 'touch', exc=True
drop_hook_touch(r) ==
    /\ hpc[r] = "touch"
    /\ \E o \in Outcomes :
          /\ Issue(r, "touch", o)
          /\ IF DropStepFails(o)
             THEN DropHookHandler(r) /\ UNCHANGED hooks_d
             ELSE /\ hooks_d' = Touch(hooks_d, hookname[r])
                  /\ hpc' = [hpc EXCEPT ![r] = "chmod"]
                  /\ UNCHANGED observed
    /\ UNCHANGED <<hooks_dir_exists, used_uuids, hookname, cleanup,
                   leave_on_failure, deployed, body_exc>>
    /\ UNCHANGED testVars
    /\ UNCHANGED inputVars
    /\ UNCHANGED parseVars

\* Host.drop_hook: 'chmod +x', exc=True (fails on a missing file)
drop_hook_chmod(r) ==
    /\ hpc[r] = "chmod"
    /\ \E o \in IF hookname[r] \in DOMAIN hooks_d THEN Outcomes
                ELSE {"fail", "raise"} :
          /\ Issue(r, "chmod", o)
          /\ IF DropStepFails(o)
             THEN DropHookHandler(r) /\ UNCHANGED hooks_d
             ELSE /\ hooks_d' = Chmod(hooks_d, hookname[r])
                  /\ hpc' = [hpc EXCEPT ![r] = "cat"]
                  /\ UNCHANGED observed
    /\ UNCHANGED <<hooks_dir_exists, used_uuids, hookname, cleanup,
                   leave_on_failure, deployed, body_exc>>
    /\ UNCHANGED testVars
    /\ UNCHANGED inputVars
    /\ UNCHANGED parseVars

\* Host.drop_hook: 'cat >>' with the script as input, exc=True; on success
\* drop_hook returns True, the assert passes and the scope body starts.
drop_hook_cat(r) ==
    /\ hpc[r] = "cat"
    /\ \E o \in Outcomes :
          /\ Issue(r, "cat", o)
          /\ IF DropStepFails(o)
             THEN DropHookHandler(r) /\ UNCHANGED <<hooks_d, deployed>>
             ELSE /\ hooks_d' = CatAppend(hooks_d, hookname[r], r)
                  /\ deployed' = [deployed EXCEPT ![r] = TRUE]
                  /\ hpc' = [hpc EXCEPT ![r] = "body"]
                  /\ UNCHANGED observed
    /\ UNCHANGED <<hooks_dir_exists, used_uuids, hookname, cleanup,
                   leave_on_failure, body_exc>>
    /\ UNCHANGED testVars
    /\ UNCHANGED inputVars
    /\ UNCHANGED parseVars

\* The body of the with-statement completes or raises.
BodyExcs == {NoExc, "BodyError"}

scope_body(r) ==
    /\ hpc[r] = "body"
    /\ \E e \in BodyExcs : body_exc' = [body_exc EXCEPT ![r] = e]
    /\ hpc' = [hpc EXCEPT ![r] = "exit"]
    /\ UNCHANGED <<hooks_dir_exists, hooks_d, used_uuids, hookname, cleanup,
                   leave_on_failure, deployed, observed, issued>>
    /\ UNCHANGED testVars
    /\ UNCHANGED inputVars
    /\ UNCHANGED parseVars

\* CobaltHook.__exit__, lines 40-42: 'rm -f' without exc, so a non-zero
\* status is tolerated; an exception of check_output leaves __exit__ and
\* is what the with-statement raises.  __exit__ returns None, so without
\* such an exception the body's exception (if any) is re-raised.
hook_exit(r) ==
    /\ hpc[r] = "exit"
    /\ IF ShouldCleanup(body_exc[r], leave_on_failure[r])
       THEN \E o \in Outcomes :
              /\ Issue(r, "rm", o)
              /\ hooks_d' = IF o = "ok" THEN RmForce(hooks_d, hookname[r])
                            ELSE hooks_d
              /\ IF Raises(o, FALSE) THEN Leave(r, "ShellError")
                 ELSE IF cleanup[r]
                 THEN /\ hpc' = [hpc EXCEPT ![r] = "exit_cleanup"]
                      /\ UNCHANGED observed
                 ELSE Leave(r, body_exc[r])
       ELSE /\ Leave(r, body_exc[r])
            /\ UNCHANGED <<hooks_d, issued>>
    /\ UNCHANGED <<hooks_dir_exists, used_uuids, hookname, cleanup,
                   leave_on_failure, deployed, body_exc>>
    /\ UNCHANGED testVars
    /\ UNCHANGED inputVars
    /\ UNCHANGED parseVars

\* CobaltHook.__exit__, lines 43-44: the optional cleanup command.
hook_exit_cleanup(r) ==
    /\ hpc[r] = "exit_cleanup"
    /\ \E o \in Outcomes :
          /\ Issue(r, "cleanup", o)
          /\ IF Raises(o, FALSE) THEN Leave(r, "ShellError")
             ELSE Leave(r, body_exc[r])
    /\ UNCHANGED <<hooks_dir_exists, hooks_d, used_uuids, hookname, cleanup,
                   leave_on_failure, deployed, body_exc>>
    /\ UNCHANGED testVars
    /\ UNCHANGED inputVars
    /\ UNCHANGED parseVars

HookNext ==
    \E r \in Runs :
        \/ with_hook(r)
        \/ check_supports_hooks(r)
        \/ drop_hook_touch(r)
        \/ drop_hook_chmod(r)
        \/ drop_hook_cat(r)
        \/ scope_body(r)
        \/ hook_exit(r)
        \/ hook_exit_cleanup(r)

HookSpec == HookInit /\ [][HookNext]_vars

(***************************************************************************)
(* Derived views of the hook state used by the properties.                 *)
(***************************************************************************)
Exited(r) == hpc[r] = "done"
FilePresent(r) == hookname[r] \in DOMAIN hooks_d
IssuedCmd(r, c) == \E i \in 1..Len(issued[r]) : issued[r][i].cmd = c
IssuedWith(r, c, o) ==
    \E i \in 1..Len(issued[r]) : issued[r][i].cmd = c /\ issued[r][i].out = o
DeployCmds == {"stat", "touch", "chmod", "cat"}

C3_BodyExceptionNotMasked ==
    \A r \in Runs :
        (Exited(r) /\ deployed[r] /\ body_exc[r] # NoExc) =>
            observed[r] = body_exc[r]

\* C5: after a failed deployment with leave_on_failure unset, the hook file
\* is not on the host once the with-statement has been left.
C5_NoFileAfterFailedDeploy ==
    \A r \in Runs :
        (Exited(r) /\ ~deployed[r] /\ ~leave_on_failure[r]) => ~FilePresent(r)

\* C6: when the probe or a deployment step fails, it is the last command
\* the run issues, the with-statement raises to its caller and the body is
\* never run; a failed probe surfaces as the failed assert of __enter__,
\* never as the probe's own error.
C6_DeployFailureIsFatal ==
    \A r \in Runs :
        \A i \in 1..Len(issued[r]) :
            (issued[r][i].cmd \in DeployCmds /\ issued[r][i].out # "ok") =>
                /\ i = Len(issued[r])
                /\ Exited(r) /\ ~deployed[r]
                /\ body_exc[r] = NoExc
                /\ observed[r] \in {"AssertionError", "TypeError"}
                /\ issued[r][i].cmd = "stat" => observed[r] = "AssertionError"

C6_Witness ==
    \E r1, r2 \in Runs :
        /\ IssuedWith(r1, "stat", "raise") /\ Exited(r1)
        /\ IssuedWith(r2, "chmod", "fail") /\ Exited(r2)

\* C7: two runs using the same base name on the same host have different
\* hook files: the names differ, every file holds only the script of the
\* run that owns its name, and while a run is inside its scope its file is
\* present, executable and holds exactly its script.
C7_ConcurrentHooksDoNotCollide ==
    /\ \A r1, r2 \in Runs :
          (r1 # r2 /\ hookname[r1] # NoName /\ hookname[r2] # NoName) =>
              hookname[r1] # hookname[r2]
    /\ \A n \in DOMAIN hooks_d :
          \A i \in 1..Len(hooks_d[n].body) : hookname[hooks_d[n].body[i]] = n
    /\ \A r \in Runs :
          hpc[r] \in {"body", "exit"} =>
              /\ FilePresent(r)
              /\ hooks_d[hookname[r]] = [exec |-> TRUE, body |-> <<r>>]

C7_Witness ==
    \E r1, r2 \in Runs :
        /\ r1 # r2
        /\ hpc[r1] = "body" /\ Exited(r2) /\ deployed[r2]
        /\ hookname[r1][1] = hookname[r2][1]
        /\ IssuedWith(r2, "rm", "ok")

(***************************************************************************)
(* Part 2: TestSharing.test_sharing, one thread of control.  Every         *)
(* iteration of a loop of the test is one action.                          *)
(***************************************************************************)
NumHosts == 2
NumGens == 2
MaxClones == 3

Hosts == 1..NumHosts
Gens == 1..NumGens

\* grinder/config.py
DEFAULT_SHARING_CLONES == 2
DEFAULT_COW_SLACK == 1500
DEFAULT_SHARE_RATIO == 80

\* the values the run is configured with
SuppliedClones == 1..MaxClones
SuppliedSlacks == {32}
SuppliedRatios == {30, 50}

\* the values the host and vmsctl report
Residents == {9, 15, 19}
Allocateds == {10}
ShCows == {0, 1}
Baselines == {1}
Deltas == {150, 168, 170}
MaxMems == {223}

\* test_sharing, lines 18-41: the three knobs are cast and clamped
ClampClones(n) == IF n < 2 \/ n > 10 THEN DEFAULT_SHARING_CLONES ELSE n
ClampSlackExclusive(n) ==
    IF n < 0 \/ n >= 16 * 256 THEN DEFAULT_COW_SLACK ELSE n
ClampSlack(n) == IF n < 0 \/ n > 16 * 256 THEN DEFAULT_COW_SLACK ELSE n
\* the ratio is a float; r is the supplied decimal in hundredths
ClampRatio(r) ==
    IF FGt(FDiv(25, 100), FDiv(r, 100)) \/ FGt(FDiv(r, 100), FDiv(99, 100))
    THEN DEFAULT_SHARE_RATIO ELSE r

\* test_sharing, lines 99-105: real_ratio > expect_ratio, in floats
SharingAssertionGe(res, alloc, clones, ratio) ==
    ~FGt(FMulInt(FDiv(ratio, 100), clones), FDiv(res, alloc))
SharingAssertion(res, alloc, clones, ratio) ==
    FGt(FDiv(res, alloc), FMulInt(FDiv(ratio, 100), clones))

\* test_sharing, line 127: min(256 * 256, int(0.9 * float(maxmem)))
TargetBlocks(mm) ==
    LET t == FToInt(FMulInt(FDiv(9, 10), mm))
    IN  IF 256 * 256 < t THEN 256 * 256 ELSE t

\* test_sharing, lines 149-150
CowAssertionGe(after, before, tgt, slack) == (after - before) >= (tgt - slack)
CowAssertion(after, before, tgt, slack) == (after - before) > (tgt - slack)

\* a clone as blessed.launch() returns it
NewVm(h, g) ==
    [host |-> h, generation |-> g, paused |-> FALSE,
     share_enabled |-> FALSE, share_onfetch |-> FALSE,
     zeros_enabled |-> TRUE, has_target |-> TRUE, hoarded |-> FALSE,
     deleted |-> FALSE]

\* line 63: the launch loop breaks
EnoughClonesOffByOne(hostcount, n) == hostcount + 1 = n
EnoughClones(hostcount, n) == hostcount = n

\* line 122: the clone CoW is forced on
DesignatedCloneLast(sharing) == sharing[Len(sharing)]
DesignatedClone(sharing) == sharing[1]

\* line 69: the clones whose generation is compared
ClonesCheckedWinningHost(cl, sharing) == sharing
ClonesChecked(cl, sharing) == cl

\* hostdict.get(host.id, (0, []))
HostdictGetFresh(hd, h) == <<0, <<>>>>
HostdictGet(hd, h) == IF h \in DOMAIN hd THEN hd[h] ELSE <<0, <<>>>>

HostdictPut(hd, h, v) ==
    [k \in DOMAIN hd \cup {h} |-> IF k = h THEN v ELSE hd[k]]

\* no run has asked for a hook
HookIdle ==
    /\ hooks_dir_exists = TRUE
    /\ hooks_d = [n \in {} |-> NoFile]
    /\ used_uuids = {}
    /\ hpc = [r \in Runs |-> "new"]
    /\ hookname = [r \in Runs |-> NoName]
    /\ cleanup = [r \in Runs |-> FALSE]
    /\ leave_on_failure = [r \in Runs |-> FALSE]
    /\ deployed = [r \in Runs |-> FALSE]
    /\ body_exc = [r \in Runs |-> NoExc]
    /\ observed = [r \in Runs |-> NoExc]
    /\ issued = [r \in Runs |-> <<>>]

TestInit ==
    /\ HookIdle
    /\ ParseIdle
    /\ tpc = "validate"
    /\ test_sharing_disable \in BOOLEAN
    /\ sharing_clones \in SuppliedClones
    /\ cow_slack \in SuppliedSlacks
    /\ share_ratio \in SuppliedRatios
    /\ vm = <<>> /\ hostdict = <<>> /\ clonelist = <<>>
    /\ clone = 0 /\ host = 0 /\ generation = 0 /\ sharingclones = <<>>
    /\ idx = 0 /\ resident = 0 /\ allocated = 0
    /\ unshare_before_force_cow = 0 /\ target = 0
    /\ failed_at = ""
    /\ supplied = [clones |-> sharing_clones, slack |-> cow_slack,
                   ratio |-> share_ratio]
    /\ maxmem = 0 /\ unshare_after = 0

\* an assert of the test fails: the exception leaves the with-block
Fail(step) ==
    /\ tpc' = "failed"
    /\ failed_at' = step

\* lines 12-41
validate ==
    /\ tpc = "validate"
    /\ IF test_sharing_disable
       THEN /\ tpc' = "skipped"
            /\ UNCHANGED <<sharing_clones, cow_slack, share_ratio>>
       ELSE /\ sharing_clones' = ClampClones(sharing_clones)
            /\ cow_slack' = ClampSlack(cow_slack)
            /\ share_ratio' = ClampRatio(share_ratio)
            /\ tpc' = "launch"
    /\ UNCHANGED <<test_sharing_disable, vm, hostdict, clonelist, clone, host,
                   generation, sharingclones, idx, resident, allocated,
                   unshare_before_force_cow, target, failed_at>>
    /\ UNCHANGED hookVars
    /\ UNCHANGED inputVars
    /\ UNCHANGED parseVars

\* lines 49-64: one iteration of the launch loop
launch ==
    /\ tpc = "launch"
    /\ \E h \in Hosts, g \in Gens :
          LET c     == Len(vm) + 1
              entry == HostdictGet(hostdict, h)
              hostcount == entry[1] + 1
              host_clone_list == Append(entry[2], c)
          IN  /\ vm' = Append(vm, NewVm(h, g))
              /\ clone' = c
              /\ clonelist' = Append(clonelist, c)
              /\ host' = h
              /\ hostdict' = HostdictPut(hostdict, h,
                                         <<hostcount, host_clone_list>>)
              /\ tpc' = IF EnoughClones(hostcount, sharing_clones)
                        THEN "generation" ELSE "launch"
    /\ UNCHANGED <<test_sharing_disable, sharing_clones, cow_slack,
                   share_ratio, generation, sharingclones, idx, resident,
                   allocated, unshare_before_force_cow, target, failed_at>>
    /\ UNCHANGED hookVars
    /\ UNCHANGED inputVars
    /\ UNCHANGED parseVars

\* lines 67-75: the generation of the last clone launched is compared with
\* the generation of every clone; then the bucket of the last host is taken
check_generation ==
    /\ tpc = "generation"
    /\ generation' = vm[clone].generation
    /\ IF LET checked == ClonesChecked(clonelist, hostdict[host][2])
          IN  \E i \in 1..Len(checked) :
                 vm[clone].generation # vm[checked[i]].generation
       THEN /\ Fail("generation")
            /\ UNCHANGED <<sharingclones, idx>>
       ELSE /\ sharingclones' = hostdict[host][2]
            /\ IF hostdict[host][1] = sharing_clones
               THEN tpc' = "setup" /\ UNCHANGED failed_at
               ELSE Fail("hostcount")
            /\ idx' = 1
    /\ UNCHANGED <<test_sharing_disable, sharing_clones, cow_slack,
                   share_ratio, vm, hostdict, clonelist, clone, host,
                   resident, allocated, unshare_before_force_cow, target>>
    /\ UNCHANGED hookVars
    /\ UNCHANGED inputVars
    /\ UNCHANGED parseVars

\* the loop variable of 'for clone in sharingclones' advances; after the
\* last iteration the test goes on to step next
AdvanceAfterFirst(next) == tpc' = next /\ idx' = 1
Advance(next) ==
    IF idx = Len(sharingclones)
    THEN tpc' = next /\ idx' = 1
    ELSE tpc' = tpc /\ idx' = idx + 1

\* lines 78-88
setup_clone ==
    /\ tpc = "setup"
    /\ clone' = sharingclones[idx]
    /\ vm' = [vm EXCEPT ![sharingclones[idx]] =
                 [@ EXCEPT !.paused = TRUE, !.share_enabled = TRUE,
                           !.share_onfetch = TRUE, !.zeros_enabled = FALSE,
                           !.has_target = FALSE]]
    /\ Advance("hoard")
    /\ UNCHANGED <<test_sharing_disable, sharing_clones, cow_slack,
                   share_ratio, hostdict, clonelist, host, generation,
                   sharingclones, resident, allocated,
                   unshare_before_force_cow, target, failed_at>>
    /\ UNCHANGED hookVars
    /\ UNCHANGED inputVars
    /\ UNCHANGED parseVars

\* lines 91-93
hoard_clone ==
    /\ tpc = "hoard"
    /\ clone' = sharingclones[idx]
    /\ \E ok \in BOOLEAN :
          IF ok
          THEN /\ vm' = [vm EXCEPT ![sharingclones[idx]].hoarded = TRUE]
               /\ Advance("ratio")
               /\ UNCHANGED failed_at
          ELSE /\ Fail("hoard")
               /\ UNCHANGED <<vm, idx>>
    /\ UNCHANGED <<test_sharing_disable, sharing_clones, cow_slack,
                   share_ratio, hostdict, clonelist, host, generation,
                   sharingclones, resident, allocated,
                   unshare_before_force_cow, target>>
    /\ UNCHANGED hookVars
    /\ UNCHANGED inputVars
    /\ UNCHANGED parseVars

\* lines 96-105
check_ratio ==
    /\ tpc = "ratio"
    /\ \E res \in Residents, alloc \in Allocateds :
          /\ resident' = res
          /\ allocated' = alloc
          /\ IF SharingAssertion(res, alloc, sharing_clones, share_ratio)
             THEN tpc' = "unpause" /\ UNCHANGED failed_at
             ELSE Fail("ratio")
    /\ UNCHANGED <<test_sharing_disable, sharing_clones, cow_slack,
                   share_ratio, vm, hostdict, clonelist, clone, host,
                   generation, sharingclones, idx,
                   unshare_before_force_cow, target>>
    /\ UNCHANGED hookVars
    /\ UNCHANGED inputVars
    /\ UNCHANGED parseVars

\* lines 108-111
unpause_clone ==
    /\ tpc = "unpause"
    /\ clone' = sharingclones[idx]
    /\ vm' = [vm EXCEPT ![sharingclones[idx]].paused = FALSE]
    /\ Advance("cow")
    /\ UNCHANGED <<test_sharing_disable, sharing_clones, cow_slack,
                   share_ratio, hostdict, clonelist, host, generation,
                   sharingclones, resident, allocated,
                   unshare_before_force_cow, target, failed_at>>
    /\ UNCHANGED hookVars
    /\ UNCHANGED inputVars
    /\ UNCHANGED parseVars

\* lines 113-114
check_cow ==
    /\ tpc = "cow"
    /\ \E sh_cow \in ShCows :
          IF sh_cow > 0
          THEN tpc' = "repause" /\ UNCHANGED failed_at
          ELSE Fail("cow")
    /\ UNCHANGED <<test_sharing_disable, sharing_clones, cow_slack,
                   share_ratio, vm, hostdict, clonelist, clone, host,
                   generation, sharingclones, idx, resident, allocated,
                   unshare_before_force_cow, target>>
    /\ UNCHANGED hookVars
    /\ UNCHANGED inputVars
    /\ UNCHANGED parseVars

\* lines 117-119
repause_clone ==
    /\ tpc = "repause"
    /\ clone' = sharingclones[idx]
    /\ vm' = [vm EXCEPT ![sharingclones[idx]].paused = TRUE]
    /\ Advance("baseline")
    /\ UNCHANGED <<test_sharing_disable, sharing_clones, cow_slack,
                   share_ratio, hostdict, clonelist, host, generation,
                   sharingclones, resident, allocated,
                   unshare_before_force_cow, target, failed_at>>
    /\ UNCHANGED hookVars
    /\ UNCHANGED inputVars
    /\ UNCHANGED parseVars

\* lines 122-131: the designated clone, the target and the baseline
record_baseline ==
    /\ tpc = "baseline"
    /\ clone' = DesignatedClone(sharingclones)
    /\ \E mm \in MaxMems :
          /\ maxmem' = mm
          /\ target' = TargetBlocks(mm)
    /\ \E b \in Baselines : unshare_before_force_cow' = b
    /\ tpc' = "force"
    /\ UNCHANGED <<test_sharing_disable, sharing_clones, cow_slack,
                   share_ratio, vm, hostdict, clonelist, host, generation,
                   sharingclones, idx, resident, allocated, failed_at>>
    /\ UNCHANGED hookVars
    /\ UNCHANGED <<supplied, unshare_after>>
    /\ UNCHANGED parseVars

\* lines 134-145: unpause the designated clone and write target blocks
force_cow ==
    /\ tpc = "force"
    /\ vm' = [vm EXCEPT ![clone].paused = FALSE]
    /\ tpc' = "delta"
    /\ UNCHANGED <<test_sharing_disable, sharing_clones, cow_slack,
                   share_ratio, hostdict, clonelist, clone, host, generation,
                   sharingclones, idx, resident, allocated,
                   unshare_before_force_cow, target, failed_at>>
    /\ UNCHANGED hookVars
    /\ UNCHANGED inputVars
    /\ UNCHANGED parseVars

\* lines 148-150
check_delta ==
    /\ tpc = "delta"
    /\ \E d \in Deltas :
          /\ unshare_after' = unshare_before_force_cow + d
          /\ IF CowAssertion(unshare_before_force_cow + d,
                             unshare_before_force_cow, target, cow_slack)
             THEN tpc' = "cleanup" /\ idx' = 1 /\ UNCHANGED failed_at
             ELSE Fail("delta") /\ UNCHANGED idx
    /\ UNCHANGED <<test_sharing_disable, sharing_clones, cow_slack,
                   share_ratio, vm, hostdict, clonelist, clone, host,
                   generation, sharingclones, resident, allocated,
                   unshare_before_force_cow, target>>
    /\ UNCHANGED hookVars
    /\ UNCHANGED <<supplied, maxmem>>
    /\ UNCHANGED parseVars

\* lines 153-154: one iteration of 'for clone in clonelist: clone.delete()'
delete_clone ==
    /\ tpc = "cleanup"
    /\ clone' = clonelist[idx]
    /\ vm' = [vm EXCEPT ![clonelist[idx]].deleted = TRUE]
    /\ IF idx = Len(clonelist)
       THEN tpc' = "passed" /\ idx' = idx
       ELSE tpc' = tpc /\ idx' = idx + 1
    /\ UNCHANGED <<test_sharing_disable, sharing_clones, cow_slack,
                   share_ratio, hostdict, clonelist, host, generation,
                   sharingclones, resident, allocated,
                   unshare_before_force_cow, target, failed_at>>
    /\ UNCHANGED hookVars
    /\ UNCHANGED inputVars
    /\ UNCHANGED parseVars

TestNext ==
    \/ validate
    \/ launch
    \/ check_generation
    \/ setup_clone
    \/ hoard_clone
    \/ check_ratio
    \/ unpause_clone
    \/ check_cow
    \/ repause_clone
    \/ record_baseline
    \/ force_cow
    \/ check_delta
    \/ delete_clone

TestSpec == TestInit /\ [][TestNext]_vars

(***************************************************************************)
(* The sharing assertion of lines 96-105 on its own: the inputs are drawn  *)
(* in the initial state and one action evaluates the assertion.            *)
(***************************************************************************)
MaxResident == 21
MaxAllocated == 10

AssertClones == 2..10
AssertRatios == {25, 29, 30, 50, 70, 80, 99}
AssertResidents == 0..MaxResident
AssertAllocateds == 1..MaxAllocated

RatioInit ==
    /\ HookIdle
    /\ ParseIdle
    /\ tpc = "assert"
    /\ test_sharing_disable = FALSE
    /\ sharing_clones \in AssertClones
    /\ cow_slack = 0
    /\ share_ratio \in AssertRatios
    /\ vm = <<>> /\ hostdict = <<>> /\ clonelist = <<>>
    /\ clone = 0 /\ host = 0 /\ generation = 0 /\ sharingclones = <<>>
    /\ idx = 0
    /\ resident \in AssertResidents
    /\ allocated \in AssertAllocateds
    /\ unshare_before_force_cow = 0 /\ target = 0
    /\ failed_at = ""
    /\ supplied = NoSupplied /\ maxmem = 0 /\ unshare_after = 0

sharing_assertion ==
    /\ tpc = "assert"
    /\ tpc' = IF SharingAssertion(resident, allocated, sharing_clones,
                                  share_ratio)
              THEN "assert_passed" ELSE "assert_failed"
    /\ UNCHANGED <<test_sharing_disable, sharing_clones, cow_slack,
                   share_ratio, vm, hostdict, clonelist, clone, host,
                   generation, sharingclones, idx, resident, allocated,
                   unshare_before_force_cow, target, failed_at>>
    /\ UNCHANGED hookVars
    /\ UNCHANGED inputVars
    /\ UNCHANGED parseVars

RatioNext == sharing_assertion

RatioSpec == RatioInit /\ [][RatioNext]_vars

(***************************************************************************)
(* Properties of the sharing test.                                         *)
(***************************************************************************)
TestEnded == tpc \in {"passed", "failed"}
ClonesOn(h) == {c \in 1..Len(vm) : vm[c].host = h}
InBucket(c, h) ==
    h \in DOMAIN hostdict /\ \E i \in 1..Len(hostdict[h][2]) : hostdict[h][2][i] = c
Untouched(c) ==
    /\ ~vm[c].paused /\ ~vm[c].share_enabled /\ ~vm[c].share_onfetch
    /\ vm[c].zeros_enabled /\ vm[c].has_target /\ ~vm[c].hoarded
GenerationsDiverge ==
    \E c1, c2 \in 1..Len(vm) : vm[c1].generation # vm[c2].generation

RECURSIVE BucketTotal(_)
BucketTotal(hs) ==
    IF hs = {} THEN 0
    ELSE LET h == CHOOSE x \in hs : TRUE
         IN  Len(hostdict[h][2]) + BucketTotal(hs \ {h})

\* C4: when the test has ended, passed or failed, every clone it launched
\* has been deleted.
C4_ClonesDeletedAtEnd ==
    TestEnded => \A c \in 1..Len(vm) : vm[c].deleted

\* C8: when the launched clones do not all report one generation, the test
\* does not get past the generation check: it is still launching, about to
\* check, or has failed at that check, and no clone has been paused,
\* flagged or told to hoard.
C8_GenerationDivergenceFails ==
    GenerationsDiverge =>
        /\ tpc \in {"launch", "generation", "failed"}
        /\ tpc = "failed" => failed_at = "generation"
        /\ \A c \in 1..Len(vm) : Untouched(c)

C8_Witness ==
    /\ tpc = "failed" /\ failed_at = "generation"
    /\ \E c \in 1..Len(vm) :
          vm[c].host # host /\ vm[c].generation # vm[Len(vm)].generation
    /\ \A c \in ClonesOn(host) : vm[c].generation = vm[Len(vm)].generation

\* C9: while the loop runs no host holds the target count; once it has
\* stopped, the host of the last clone launched holds exactly the target
\* count, every other host holds fewer, every clone is in the bucket of its
\* own host and in no other, the counts are the bucket sizes and the bucket
\* sizes sum to the number of clones launched.
C9_LaunchLoopBuckets ==
    /\ tpc = "launch" =>
          \A h \in Hosts : Cardinality(ClonesOn(h)) < sharing_clones
    /\ tpc \notin {"idle", "validate", "skipped", "launch", "assert",
                   "assert_passed", "assert_failed"} =>
          /\ host = vm[Len(vm)].host
          /\ Cardinality(ClonesOn(host)) = sharing_clones
          /\ hostdict[host][1] = sharing_clones
          /\ \A h \in Hosts \ {host} :
                Cardinality(ClonesOn(h)) < sharing_clones
          /\ \A c \in 1..Len(vm) :
                \A h \in Hosts : InBucket(c, h) <=> h = vm[c].host
          /\ \A h \in DOMAIN hostdict :
                /\ hostdict[h][1] = Len(hostdict[h][2])
                /\ hostdict[h][1] = Cardinality(ClonesOn(h))
          /\ BucketTotal(DOMAIN hostdict) = Len(vm)
          /\ clonelist = [c \in 1..Len(vm) |-> c]

C9_Witness ==
    /\ tpc = "generation"
    /\ sharing_clones = 3
    /\ Len(vm) = 4
    /\ \E h \in Hosts \ {host} : Cardinality(ClonesOn(h)) = 1

\* C10: the sharing assertion passes exactly when resident / allocated is
\* greater than count * ratio (the ratio is held in hundredths).
C10_PassesIffExceeds ==
    tpc \in {"assert_passed", "assert_failed"} =>
        (tpc = "assert_passed" <=>
            resident * 100 > sharing_clones * share_ratio * allocated)

(***************************************************************************)
(* The forced copy-on-write assertion of lines 125-150 on its own: the     *)
(* max memory, the slack and the two counter samples are drawn in the      *)
(* initial state and one action computes the target and evaluates the      *)
(* assertion.                                                              *)
(***************************************************************************)
CowMaxMems == {10, 20, 222, 223, 72817, 72818, 72819, 100000}
CowSlacks == {0, 32, 4096}
CowBaselines == {0, 7}
CowDeltas == {0, 150, 167, 168, 169, 170, 200, 61439, 61440, 61441,
              65535, 65536, 65537}

CowInit ==
    /\ HookIdle
    /\ ParseIdle
    /\ tpc = "cow_assert"
    /\ test_sharing_disable = FALSE
    /\ sharing_clones = 0
    /\ cow_slack \in CowSlacks
    /\ share_ratio = 0
    /\ vm = <<>> /\ hostdict = <<>> /\ clonelist = <<>>
    /\ clone = 0 /\ host = 0 /\ generation = 0 /\ sharingclones = <<>>
    /\ idx = 0 /\ resident = 0 /\ allocated = 0
    /\ unshare_before_force_cow \in CowBaselines
    /\ target = 0
    /\ failed_at = ""
    /\ supplied = NoSupplied
    /\ maxmem \in CowMaxMems
    /\ \E d \in CowDeltas : unshare_after = unshare_before_force_cow + d

cow_assertion ==
    /\ tpc = "cow_assert"
    /\ target' = TargetBlocks(maxmem)
    /\ tpc' = IF CowAssertion(unshare_after, unshare_before_force_cow,
                              TargetBlocks(maxmem), cow_slack)
              THEN "cow_passed" ELSE "cow_failed"
    /\ UNCHANGED <<test_sharing_disable, sharing_clones, cow_slack,
                   share_ratio, vm, hostdict, clonelist, clone, host,
                   generation, sharingclones, idx, resident, allocated,
                   unshare_before_force_cow, failed_at>>
    /\ UNCHANGED hookVars
    /\ UNCHANGED inputVars
    /\ UNCHANGED parseVars

CowNext == cow_assertion

CowSpec == CowInit /\ [][CowNext]_vars

\* C11: the forced copy-on-write assertion passes exactly when the increase
\* of sh_cow + sh_un since the baseline is greater than target - slack,
\* where target is the lesser of 65536 and nine tenths of the max memory
\* rounded down; with target 200 and slack 32 the deltas 150 and 168 fail
\* and 170 passes.
C11_CowPassesIffDeltaExceeds ==
    tpc \in {"cow_passed", "cow_failed"} =>
        LET ninety == (9 * maxmem) \div 10
            tgt    == IF ninety < 65536 THEN ninety ELSE 65536
            delta  == unshare_after - unshare_before_force_cow
        IN  /\ target = tgt
            /\ tpc = "cow_passed" <=> delta > tgt - cow_slack
            /\ (tgt = 200 /\ cow_slack = 32) =>
                  /\ delta \in {150, 168} => tpc = "cow_failed"
                  /\ delta = 170 => tpc = "cow_passed"

C11_Witness ==
    /\ tpc = "cow_failed"
    /\ target = 200 /\ cow_slack = 32
    /\ unshare_after - unshare_before_force_cow = 168

(***************************************************************************)
(* The validation of the three knobs (lines 16-41) on its own, over        *)
(* supplied values inside, on the boundary of, and outside each range.     *)
(***************************************************************************)
ValidateClones == {0, 1, 2, 3, 10, 11}
ValidateSlacks == {0 - 1, 0, 32, 4096, 4097}
ValidateRatios == {0, 24, 25, 50, 99, 100}

ValidateInit ==
    /\ HookIdle
    /\ ParseIdle
    /\ tpc = "validate"
    /\ test_sharing_disable \in BOOLEAN
    /\ sharing_clones \in ValidateClones
    /\ cow_slack \in ValidateSlacks
    /\ share_ratio \in ValidateRatios
    /\ vm = <<>> /\ hostdict = <<>> /\ clonelist = <<>>
    /\ clone = 0 /\ host = 0 /\ generation = 0 /\ sharingclones = <<>>
    /\ idx = 0 /\ resident = 0 /\ allocated = 0
    /\ unshare_before_force_cow = 0 /\ target = 0
    /\ failed_at = ""
    /\ supplied = [clones |-> sharing_clones, slack |-> cow_slack,
                   ratio |-> share_ratio]
    /\ maxmem = 0 /\ unshare_after = 0

ValidateNext == validate

ValidateSpec == ValidateInit /\ [][ValidateNext]_vars

WinningClones == {sharingclones[i] : i \in 1..Len(sharingclones)}

\* the effect of lines 80-88 on one clone, pause apart
SetUp(c) ==
    /\ vm[c].share_enabled /\ vm[c].share_onfetch
    /\ ~vm[c].zeros_enabled /\ ~vm[c].has_target

\* line 96 has run: host.get_vmsfs_stats(generation) was sampled
RatioSampled == allocated # 0

\* C18: a full_hoard is issued only once every clone of the winning host is
\* paused and set up; the first stats sample is taken only once every
\* clone of the winning host reported a successful hoard; a failing
\* full_hoard fails the test at once, with the later clones never hoarded
\* and no sample taken.
C18_SetupBeforeHoardBeforeSample ==
    /\ (tpc = "hoard" \/ failed_at = "hoard") =>
          \A c \in WinningClones : vm[c].paused /\ SetUp(c)
    /\ (\E c \in 1..Len(vm) : vm[c].hoarded) =>
          \A c \in WinningClones : SetUp(c)
    /\ RatioSampled =>
          /\ WinningClones = ClonesOn(host)
          /\ \A c \in WinningClones : vm[c].hoarded
    /\ failed_at = "hoard" =>
          /\ tpc = "failed"
          /\ ~RatioSampled
          /\ \A i \in 1..Len(sharingclones) :
                vm[sharingclones[i]].hoarded <=> i < idx

C18_Witness ==
    /\ RatioSampled
    /\ Len(sharingclones) = 3
    /\ Len(vm) > 3
    /\ \A c \in WinningClones : vm[c].hoarded /\ vm[c].paused /\ SetUp(c)

\* C19: the baseline is sampled while every clone of the winning host is
\* paused, and from the unpause that follows it until the final sample
\* the first clone of the winning host's bucket is the only clone of that
\* host that is not paused.
C19_OnlyDesignatedCloneRuns ==
    /\ tpc \in {"baseline", "force"} =>
          \A c \in WinningClones : vm[c].paused
    /\ (tpc = "delta" \/ unshare_after # 0) =>
          /\ unshare_before_force_cow # 0
          /\ {c \in ClonesOn(host) : ~vm[c].paused} = {sharingclones[1]}

C19_Witness ==
    /\ unshare_after # 0
    /\ Len(sharingclones) = 3
    /\ sharingclones[1] # 1
    /\ ~vm[sharingclones[1]].paused
    /\ vm[sharingclones[2]].paused /\ vm[sharingclones[3]].paused

\* C20: with launches that always succeed on NumHosts hosts, the launch
\* loop has ended by the time NumHosts * (N - 1) + 1 clones were launched,
\* under every placement order.
C20_LaunchesWithinPigeonholeBound ==
    /\ Len(vm) <= NumHosts * (sharing_clones - 1) + 1
    /\ tpc = "launch" => Len(vm) <= NumHosts * (sharing_clones - 1)

\* the bound is reached: no smaller ceiling stops the loop
C20_Witness ==
    /\ sharing_clones = 3
    /\ Len(vm) = NumHosts * (sharing_clones - 1) + 1
    /\ tpc # "launch"


(***************************************************************************)
(* Texts.  A text is a sequence of one-character strings; the operators    *)
(* below are the str methods and the regular expression that host.py       *)
(* applies to the output of the host's commands.                           *)
(***************************************************************************)
\* the printable characters in code-point order, from " " (32) to "~"
\* (126); the backslash (92) and the backquote (96), which are in no text,
\* are left out as ""
Printable ==
    <<" ", "!", "\"", "#", "$", "%", "&", "'", "(", ")", "*", "+", ",", "-",
      ".", "/", "0", "1", "2", "3", "4", "5", "6", "7", "8", "9", ":", ";",
      "<", "=", ">", "?", "@", "A", "B", "C", "D", "E", "F", "G", "H", "I",
      "J", "K", "L", "M", "N", "O", "P", "Q", "R", "S", "T", "U", "V", "W",
      "X", "Y", "Z", "[", "", "]", "^", "_", "", "a", "b", "c", "d", "e",
      "f", "g", "h", "i", "j", "k", "l", "m", "n", "o", "p", "q", "r", "s",
      "t", "u", "v", "w", "x", "y", "z", "{", "|", "}", "~">>

\* ord(c)
Ord(c) ==
    IF c = "\n" THEN 10
    ELSE IF c = "\t" THEN 9
    ELSE 31 + CHOOSE i \in 1..Len(Printable) : Printable[i] = c

\* the characters str.split() and str.strip() take for whitespace
Whitespace == {" ", "\t", "\n"}

\* the classes [a-z_] and [0-9]
Lower == {Printable[i] : i \in 66..91} \cup {"_"}
Digits == {Printable[i] : i \in 17..26}

Newline == <<"\n">>
Space == <<" ">>
Slash == <<"/">>

\* the k-th smallest element of a set of positions
Nth(S, k) == CHOOSE i \in S : Cardinality({j \in S : j < i}) = k - 1

\* s.split(sep) for a separator of one character
Split(s, sep) ==
    LET at     == {i \in 1..Len(s) : <<s[i]>> = sep}
        cut(k) == IF k = 0 THEN 0
                  ELSE IF k > Cardinality(at) THEN Len(s) + 1
                  ELSE Nth(at, k)
    IN  [k \in 1..(Cardinality(at) + 1) |->
            SubSeq(s, cut(k - 1) + 1, cut(k) - 1)]

\* s.split(): the maximal runs of characters that are not whitespace
SplitWs(s) ==
    LET ws(i)  == s[i] \in Whitespace
        starts == {i \in 1..Len(s) : ~ws(i) /\ (i = 1 \/ ws(i - 1))}
        ends   == {i \in 1..Len(s) : ~ws(i) /\ (i = Len(s) \/ ws(i + 1))}
    IN  [k \in 1..Cardinality(starts) |->
            SubSeq(s, Nth(starts, k), Nth(ends, k))]

\* s.strip()
Strip(s) ==
    LET keep == {i \in 1..Len(s) : s[i] \notin Whitespace}
    IN  IF keep = {} THEN <<>>
        ELSE SubSeq(s, Nth(keep, 1), Nth(keep, Cardinality(keep)))

\* sep.join(parts)
RECURSIVE Join(_, _)
Join(parts, sep) ==
    IF parts = <<>> THEN <<>>
    ELSE IF Len(parts) = 1 THEN parts[1]
    ELSE parts[1] \o sep \o Join(Tail(parts), sep)

\* sub in s
Contains(s, sub) ==
    \E i \in 0..(Len(s) - Len(sub)) : SubSeq(s, i + 1, i + Len(sub)) = sub

\* a < b for two str: the comparison list.sort() uses
StrLess(a, b) ==
    \E i \in 1..Len(b) :
       /\ \A j \in 1..(i - 1) : j <= Len(a) /\ a[j] = b[j]
       /\ i > Len(a) \/ Ord(a[i]) < Ord(b[i])

\* long(s) for a text of decimal digits
RECURSIVE Long(_)
Long(s) ==
    IF s = <<>> THEN 0
    ELSE 10 * Long(SubSeq(s, 1, Len(s) - 1)) + (Ord(s[Len(s)]) - 48)

\* the number of characters of s from position p on that are in class,
\* up to the first one that is not
Run(s, p, class) ==
    LET stop == {i \in p..Len(s) : s[i] \notin class}
    IN  (IF stop = {} THEN Len(s) + 1 ELSE Nth(stop, 1)) - p

\* re.match returned None
NoMatch == <<>>

\* re.match('([a-z_]+): ([0-9]+) -', line): the two groups, or None.  The
\* match is anchored at the start of the line only.
StatsMatch(line) ==
    LET n == Run(line, 1, Lower)
        m == Run(line, n + 3, Digits)
    IN  IF /\ n >= 1
           /\ Len(line) >= n + 2
           /\ line[n + 1] = ":" /\ line[n + 2] = " "
           /\ m >= 1
           /\ Len(line) >= n + m + 4
           /\ line[n + m + 3] = " " /\ line[n + m + 4] = "-"
        THEN <<SubSeq(line, 1, n), SubSeq(line, n + 3, n + m + 2)>>
        ELSE NoMatch

\* what a call returned, or the exception it raised
Returned(value) == [exc |-> NoExc, value |-> value]
Raised(exc) == [exc |-> exc, value |-> <<>>]


(***************************************************************************)
(* Host.get_vmsfs_stats, lines 77-93.                                      *)
(***************************************************************************)
MaxStatLines == 3

\* "cur_resident: 100 -blah"
ResidentLine ==
    <<"c", "u", "r", "_", "r", "e", "s", "i", "d", "e", "n", "t", ":", " ",
      "1", "0", "0", " ", "-", "b", "l", "a", "h">>
\* "cur_allocated: 400 -blah"
AllocatedLine ==
    <<"c", "u", "r", "_", "a", "l", "l", "o", "c", "a", "t", "e", "d", ":",
      " ", "4", "0", "0", " ", "-", "b", "l", "a", "h">>
\* "  sh_cow: 7 -"
IndentedLine ==
    <<" ", " ", "s", "h", "_", "c", "o", "w", ":", " ", "7", " ", "-">>
\* "garbage"
GarbageLine ==
    <<"g", "a", "r", "b", "a", "g", "e">>

StatLines == {ResidentLine, AllocatedLine, IndentedLine, GarbageLine}

\* the texts the stats file may hold: up to MaxStatLines lines, with or
\* without a newline after the last one
StatsTexts ==
    {Join(ls, Newline) \o end :
        ls \in UNION {[1..n -> StatLines] : n \in 1..MaxStatLines},
        end \in {<<>>, Newline}}

\* lines 88-93: the dict built from the lines, the later line winning for
\* a key; m.groups() raises AttributeError when m is None
GetVmsfsStats(stdout) ==
    LET split  == Split(stdout, Newline)
        lines  == [k \in DOMAIN split |-> Strip(split[k])]
        m(k)   == StatsMatch(lines[k])
        keys   == {m(k)[1] : k \in DOMAIN lines}
        last(key) == CHOOSE k \in DOMAIN lines :
                        /\ m(k)[1] = key
                        /\ \A j \in DOMAIN lines : m(j)[1] = key => j <= k
    IN  IF \E k \in DOMAIN lines : m(k) = NoMatch
        THEN Raised("AttributeError")
        ELSE Returned([key \in keys |-> Long(m(last(key))[2])])

StatsInit ==
    /\ HookIdle
    /\ TestIdle
    /\ ppc = "stats"
    /\ stats_out \in StatsTexts
    /\ ip_out = <<>>
    /\ captures = <<>> /\ iptables_out = <<>>
    /\ query = <<>> /\ ret = <<>>

get_vmsfs_stats ==
    /\ ppc = "stats"
    /\ ret' = Append(ret, GetVmsfsStats(stats_out))
    /\ ppc' = "stats_done"
    /\ UNCHANGED <<stats_out, ip_out, captures, iptables_out, query>>
    /\ UNCHANGED <<hookVars, testVars, inputVars>>

StatsNext == get_vmsfs_stats

StatsSpec == StatsInit /\ [][StatsNext]_vars

\* the lines of a stats text that match 'name: integer -'
MatchingLines(text) ==
    LET split == Split(text, Newline)
    IN  {k \in DOMAIN split : StatsMatch(Strip(split[k])) # NoMatch}

\* the counters of the matching lines of a stats text
CountersOf(text) ==
    LET split == Split(text, Newline)
        m(k)  == StatsMatch(Strip(split[k]))
        names == {m(k)[1] : k \in MatchingLines(text)}
        last(name) == CHOOSE k \in MatchingLines(text) :
                         /\ m(k)[1] = name
                         /\ \A j \in MatchingLines(text) :
                               m(j)[1] = name => j <= k
    IN  [name \in names |-> Long(m(last(name))[2])]

\* C13: get_vmsfs_stats returns the counters of the lines that match
\* 'name: integer -' and nothing else; a line that does not match is
\* ignored and does not make the call raise.
C13_NonMatchingLinesIgnored ==
    ppc = "stats_done" =>
        /\ ret[1].exc = NoExc
        /\ ret[1].value = CountersOf(stats_out)


(***************************************************************************)
(* Host.get_ips, lines 95-99.                                              *)
(***************************************************************************)
MaxIpLines == 3

\* "    inet 127.0.0.1/8 scope host lo"
LoopbackLine ==
    <<" ", " ", " ", " ", "i", "n", "e", "t", " ", "1", "2", "7", ".", "0",
      ".", "0", ".", "1", "/", "8", " ", "s", "c", "o", "p", "e", " ", "h",
      "o", "s", "t", " ", "l", "o">>
\* "    inet 10.0.0.1/24 scope global eth0"
EthLine ==
    <<" ", " ", " ", " ", "i", "n", "e", "t", " ", "1", "0", ".", "0", ".",
      "0", ".", "1", "/", "2", "4", " ", "s", "c", "o", "p", "e", " ", "g",
      "l", "o", "b", "a", "l", " ", "e", "t", "h", "0">>
\* "    inet 10.0.0.2 peer 10.0.0.3/32 scope global tun0"
PeerLine ==
    <<" ", " ", " ", " ", "i", "n", "e", "t", " ", "1", "0", ".", "0", ".",
      "0", ".", "2", " ", "p", "e", "e", "r", " ", "1", "0", ".", "0", ".",
      "0", ".", "3", "/", "3", "2", " ", "s", "c", "o", "p", "e", " ", "g",
      "l", "o", "b", "a", "l", " ", "t", "u", "n", "0">>

IpLines == {LoopbackLine, EthLine, PeerLine}

\* what 'ip addr | grep "inet "' may print: nothing, or up to MaxIpLines
\* lines, printed with a newline after the last one or handed over
\* without it
IpTexts ==
    {<<>>} \cup
    {Join(ls, Newline) \o end :
        ls \in UNION {[1..n -> IpLines] : n \in 1..MaxIpLines},
        end \in {<<>>, Newline}}

\* lines 98-99: x.split()[1] raises IndexError on a line of fewer than two
\* tokens; map() is applied to every piece of stdout.split("\n")
GetIps(stdout) ==
    LET lines   == Split(stdout, Newline)
        toks(k) == SplitWs(lines[k])
    IN  IF \E k \in DOMAIN lines : Len(toks(k)) < 2
        THEN Raised("IndexError")
        ELSE Returned([k \in DOMAIN lines |-> Split(toks(k)[2], Slash)[1]])

IpsInit ==
    /\ HookIdle
    /\ TestIdle
    /\ ppc = "ips"
    /\ stats_out = <<>>
    /\ ip_out \in IpTexts
    /\ captures = <<>> /\ iptables_out = <<>>
    /\ query = <<>> /\ ret = <<>>

get_ips ==
    /\ ppc = "ips"
    /\ ret' = Append(ret, GetIps(ip_out))
    /\ ppc' = "ips_done"
    /\ UNCHANGED <<stats_out, ip_out, captures, iptables_out, query>>
    /\ UNCHANGED <<hookVars, testVars, inputVars>>

IpsNext == get_ips

IpsSpec == IpsInit /\ [][IpsNext]_vars

\* "inet "
InetMark == <<"i", "n", "e", "t", " ">>

\* one address per line of the text that contains "inet ": the second
\* token of the line, up to its first "/"
AddressesOf(text) ==
    LET lines == Split(text, Newline)
        inet  == {k \in DOMAIN lines : Contains(lines[k], InetMark)}
    IN  [i \in 1..Cardinality(inet) |->
            Split(SplitWs(lines[Nth(inet, i)])[2], Slash)[1]]

\* C17: get_ips returns one address for each output line containing
\* "inet " (its second token without the "/prefix") and nothing else,
\* and does not raise on the final newline or on an output with no line.
C17_OneAddressPerInetLine ==
    ppc = "ips_done" =>
        /\ ret[1].exc = NoExc
        /\ ret[1].value = AddressesOf(ip_out)


(***************************************************************************)
(* Host.__get_iptables_rules, lines 103-128.                               *)
(***************************************************************************)
MaxRows == 2

\* "HOST_IP"
HOST_IP ==
    <<"H", "O", "S", "T", "_", "I", "P">>
\* "Chain "
ChainWord ==
    <<"C", "h", "a", "i", "n", " ">>
\* " (1 references)"
ReferencesWord ==
    <<" ", "(", "1", " ", "r", "e", "f", "e", "r", "e", "n", "c", "e", "s",
      ")">>
\* "target     prot opt source               destination"
ColumnsLine ==
    <<"t", "a", "r", "g", "e", "t", " ", " ", " ", " ", " ", "p", "r", "o",
      "t", " ", "o", "p", "t", " ", "s", "o", "u", "r", "c", "e", " ", " ",
      " ", " ", " ", " ", " ", " ", " ", " ", " ", " ", " ", " ", " ", "d",
      "e", "s", "t", "i", "n", "a", "t", "i", "o", "n">>
\* "nova-compute-inst-1"
InstanceChain ==
    <<"n", "o", "v", "a", "-", "c", "o", "m", "p", "u", "t", "e", "-", "i",
      "n", "s", "t", "-", "1">>
\* "nova-compute-inst-12"
OtherChain ==
    <<"n", "o", "v", "a", "-", "c", "o", "m", "p", "u", "t", "e", "-", "i",
      "n", "s", "t", "-", "1", "2">>
\* "nova-compute-local"
MasterChain ==
    <<"n", "o", "v", "a", "-", "c", "o", "m", "p", "u", "t", "e", "-", "l",
      "o", "c", "a", "l">>
\* "ACCEPT     all  --  "
AcceptFrom ==
    <<"A", "C", "C", "E", "P", "T", " ", " ", " ", " ", " ", "a", "l", "l",
      " ", " ", "-", "-", " ", " ">>
\* "             0.0.0.0/0"
ToAnywhere ==
    <<" ", " ", " ", " ", " ", " ", " ", " ", " ", " ", " ", " ", " ", "0",
      ".", "0", ".", "0", ".", "0", "/", "0">>
\* "DROP       udp  --  0.0.0.0/0            "
DropTo ==
    <<"D", "R", "O", "P", " ", " ", " ", " ", " ", " ", " ", "u", "d", "p",
      " ", " ", "-", "-", " ", " ", "0", ".", "0", ".", "0", ".", "0", "/",
      "0", " ", " ", " ", " ", " ", " ", " ", " ", " ", " ", " ", " ">>
\* "RETURN     all  --  0.0.0.0/0            0.0.0.0/0"
ReturnRow ==
    <<"R", "E", "T", "U", "R", "N", " ", " ", " ", " ", " ", "a", "l", "l",
      " ", " ", "-", "-", " ", " ", "0", ".", "0", ".", "0", ".", "0", "/",
      "0", " ", " ", " ", " ", " ", " ", " ", " ", " ", " ", " ", " ", "0",
      ".", "0", ".", "0", ".", "0", "/", "0">>

\* the rows of a chain as the firewall holds them: a row names one of the
\* host's addresses (slot) between pre and post, or no address at all
RowTemplates ==
    {[slot |-> TRUE, pre |-> AcceptFrom, post |-> ToAnywhere],
     [slot |-> TRUE, pre |-> DropTo, post |-> <<>>],
     [slot |-> FALSE, pre |-> ReturnRow, post |-> <<>>]}

\* the row as 'iptables -n -L' prints it with address ip in the slot
RenderRow(t, ip) == IF t.slot THEN t.pre \o ip \o t.post ELSE t.pre

\* the two header lines of a listing of chain
Headers(chain) == <<ChainWord \o chain \o ReferencesWord, ColumnsLine>>

\* what 'iptables -n -L chain' may print for a chain holding the rows of
\* set S on a host with addresses ips: the rows in any order, each slot
\* filled with any address of the host, with or without a final newline
Renderings(chain, S, ips) ==
    {Join(Headers(chain) \o [k \in 1..Cardinality(S) |->
                                RenderRow(order[k], fill[k])], Newline)
        \o end :
        order \in {f \in [1..Cardinality(S) -> S] :
                      \A i, j \in 1..Cardinality(S) : f[i] = f[j] => i = j},
        fill \in [1..Cardinality(S) -> ips],
        end \in {<<>>, Newline}}

\* the elements of a sequence
Range(s) == {s[i] : i \in DOMAIN s}

\* what 'ip addr | grep "inet "' prints on the host of the firewall
\* captures, with its final newline or handed over without it
RuleIpTexts == {Join(<<LoopbackLine, EthLine>>, Newline) \o end :
                   end \in {<<>>, Newline}}

\* lines 106-111: the rows after the two header lines, less one trailing
\* empty row; rules[-1] raises IndexError when there is no row at all
TryRowsNoRaise(stdout) ==
    LET split == Split(stdout, Newline)
        rules == IF Len(split) > 2 THEN SubSeq(split, 3, Len(split))
                 ELSE <<>>
    IN  IF rules = <<>> THEN Returned(<<>>)
        ELSE IF rules[Len(rules)] = <<>>
        THEN Returned(SubSeq(rules, 1, Len(rules) - 1))
        ELSE Returned(rules)
TryRows(stdout) ==
    LET split == Split(stdout, Newline)
        rules == IF Len(split) > 2 THEN SubSeq(split, 3, Len(split))
                 ELSE <<>>
    IN  IF rules = <<>> THEN Raised("IndexError")
        ELSE IF rules[Len(rules)] = <<>>
        THEN Returned(SubSeq(rules, 1, Len(rules) - 1))
        ELSE Returned(rules)

\* lines 116-123: one rule with the host's addresses replaced
ModifiedRule(rule, ips) ==
    LET rule_tokens == SplitWs(rule)
    IN  Join([i \in DOMAIN rule_tokens |->
                 IF rule_tokens[i] \in Range(ips)
                 THEN HOST_IP ELSE rule_tokens[i]], Space)

\* lines 105-128; the bare except of line 110 returns [] before get_ips is
\* called, and an exception of get_ips (line 113) is not caught
GetIptablesRules(stdout, ipout) ==
    LET rules == TryRows(stdout)
        ips   == GetIps(ipout)
    IN  IF rules.exc # NoExc THEN Returned(<<>>)
        ELSE IF ips.exc # NoExc THEN Raised(ips.exc)
        ELSE Returned(SortSeq([k \in DOMAIN rules.value |->
                                  ModifiedRule(rules.value[k], ips.value)],
                              StrLess))

\* two captures of one chain in one firewall state, or one listing of a
\* chain that does not exist (the command prints nothing on stdout)
RulesInit ==
    /\ HookIdle
    /\ TestIdle
    /\ ppc = "rules"
    /\ stats_out = <<>>
    /\ iptables_out = <<>>
    /\ query = <<InstanceChain>>
    /\ ret = <<>>
    /\ \/ /\ ip_out \in RuleIpTexts
          /\ \E S \in SUBSET RowTemplates :
                /\ Cardinality(S) \in 1..MaxRows
                /\ \E c1, c2 \in Renderings(InstanceChain, S,
                                            Range(AddressesOf(ip_out))) :
                      captures = <<c1, c2>>
       \/ /\ ip_out \in RuleIpTexts \cup {<<>>}
          /\ captures = << <<>> >>

\* one call of __get_iptables_rules(chain), on the next capture
get_iptables_rules ==
    /\ ppc = "rules"
    /\ ret' = Append(ret, GetIptablesRules(captures[Len(ret) + 1], ip_out))
    /\ ppc' = IF Len(ret) + 1 = Len(captures) THEN "rules_done" ELSE "rules"
    /\ UNCHANGED <<stats_out, ip_out, captures, iptables_out, query>>
    /\ UNCHANGED <<hookVars, testVars, inputVars>>

RulesNext == get_iptables_rules

RulesSpec == RulesInit /\ [][RulesNext]_vars

\* C14: the fetch of the rules of a chain that does not exist, whose
\* listing prints no rule output, returns the empty sequence and does not
\* raise, whatever 'ip addr' prints.
C14_MissingChainGivesNoRules ==
    \A k \in DOMAIN ret :
       captures[k] = <<>> => ret[k] = [exc |-> NoExc, value |-> <<>>]

C14_Witness ==
    /\ ppc = "rules_done"
    /\ captures = << <<>> >>
    /\ ip_out # <<>> /\ ip_out[Len(ip_out)] = "\n"
    /\ ret = <<[exc |-> NoExc, value |-> <<>>]>>

\* the rows of a listing: the non-empty lines after the two header lines
RowsOf(text) ==
    LET lines == Split(text, Newline)
        rows  == {k \in DOMAIN lines : k > 2 /\ lines[k] # <<>>}
    IN  [i \in 1..Cardinality(rows) |-> lines[Nth(rows, i)]]

\* the rows of a listing, every token equal to an assigned address
\* replaced by HOST_IP, sorted
NormalizedRows(text, ipText) ==
    LET rows == RowsOf(text)
    IN  SortSeq([k \in DOMAIN rows |->
                    ModifiedRule(rows[k], AddressesOf(ipText))], StrLess)

\* C15: two captures of one chain that hold the same rows, in any order
\* and with any of the host's addresses as tokens, are fetched as equal
\* sequences: the rows with HOST_IP for the addresses, sorted.
C15_CapturesFetchEqual ==
    (ppc = "rules_done" /\ Len(captures) = 2) =>
        /\ ret[1].exc = NoExc /\ ret[2].exc = NoExc
        /\ ret[1].value = ret[2].value
        /\ ret[1].value = NormalizedRows(captures[1], ip_out)


(***************************************************************************)
(* Host.get_nova_compute_instance_filter_rules, lines 155-164.             *)
(***************************************************************************)
\* "  all  --  0.0.0.0/0            10.0.0.5"
JumpTail ==
    <<" ", " ", "a", "l", "l", " ", " ", "-", "-", " ", " ", "0", ".", "0",
      ".", "0", ".", "0", "/", "0", " ", " ", " ", " ", " ", " ", " ", " ",
      " ", " ", " ", " ", "1", "0", ".", "0", ".", "0", ".", "5">>

\* the row of the master chain that jumps to chain
JumpRow(chain) == [slot |-> FALSE, pre |-> chain \o JumpTail, post |-> <<>>]

\* what the listing of a chain may print: nothing when the chain does not
\* exist, else the headers and the rows of S
Listings(chain, sets, ips) ==
    {<<>>} \cup UNION {Renderings(chain, S, ips) : S \in sets}

\* lines 156-164; an exception of either fetch is not caught
GetFilterRules(out, ipout, iptables_master_rule, server_iptables_chain) ==
    LET master == GetIptablesRules(out[iptables_master_rule], ipout)
        server == GetIptablesRules(out[server_iptables_chain], ipout)
    IN  IF master.exc # NoExc THEN Raised(master.exc)
        ELSE IF \E k \in DOMAIN master.value :
                   Contains(master.value[k], server_iptables_chain)
        THEN IF server.exc # NoExc THEN Raised(server.exc)
             ELSE Returned(<<TRUE, server.value>>)
        ELSE Returned(<<FALSE, <<>>>>)

FilterInit ==
    /\ HookIdle
    /\ TestIdle
    /\ ppc = "filter"
    /\ stats_out = <<>>
    /\ captures = <<>>
    /\ ret = <<>>
    /\ ip_out \in RuleIpTexts
    /\ \E chain \in {InstanceChain, OtherChain} :
          query = <<MasterChain, chain>>
    /\ LET ips == Range(AddressesOf(ip_out))
       IN  \E m \in Listings(MasterChain,
                             SUBSET {JumpRow(InstanceChain),
                                     JumpRow(OtherChain)}, ips),
              i \in Listings(InstanceChain,
                             {S \in SUBSET RowTemplates :
                                 Cardinality(S) <= 1}, ips),
              o \in Listings(OtherChain, {{}}, ips) :
              iptables_out = [c \in {MasterChain, InstanceChain, OtherChain}
                                 |-> IF c = MasterChain THEN m
                                     ELSE IF c = InstanceChain THEN i
                                     ELSE o]

get_nova_compute_instance_filter_rules ==
    /\ ppc = "filter"
    /\ ret' = Append(ret, GetFilterRules(iptables_out, ip_out,
                                         query[1], query[2]))
    /\ ppc' = "filter_done"
    /\ UNCHANGED <<stats_out, ip_out, captures, iptables_out, query>>
    /\ UNCHANGED <<hookVars, testVars, inputVars>>

FilterNext == get_nova_compute_instance_filter_rules

FilterSpec == FilterInit /\ [][FilterNext]_vars

\* some row of the listing has chain as one of its tokens
References(text, chain) ==
    \E k \in DOMAIN RowsOf(text) : chain \in Range(SplitWs(RowsOf(text)[k]))

\* C16: the call returns (True, normalized rules of the instance chain)
\* when some row of the master chain references the instance chain, and
\* (False, []) when none does.
C16_TrueIffMasterReferencesChain ==
    ppc = "filter_done" =>
        ret[1] = IF References(iptables_out[query[1]], query[2])
                 THEN [exc |-> NoExc,
                       value |-> <<TRUE, NormalizedRows(iptables_out[query[2]],
                                                        ip_out)>>]
                 ELSE [exc |-> NoExc, value |-> <<FALSE, <<>>>>]

=============================================================================
